---- MODULE Spec2Model ----
(***************************************************************************)
(* Model of the data-validation library of Task8/validator.py.             *)
(*                                                                         *)
(* Python values are tagged records [t |-> tag, v |-> payload]:            *)
(*   none      None                                                        *)
(*   bool      v \in BOOLEAN                                               *)
(*   int       v \in Int                                                   *)
(*   float     v is the number of halves (v = 3 is 1.5, v = 4 is 2.0)      *)
(*   str       v is the sequence of the string's characters                *)
(*   datetime  a datetime.datetime object                                  *)
(*   date      a datetime.date object that is not a datetime               *)
(*   list      v is the sequence of the items                              *)
(*   dict      v is a function from the keys to the values; a key is a     *)
(*             string, or the int 0, which is written IntKeyZero           *)
(* Field names, paths, messages and error strings are TLA+ strings, built  *)
(* with \o as the f-strings of the source build them.  An Optional[...]    *)
(* attribute is <<>> for None and <<x>> for the value x.                   *)
(***************************************************************************)
EXTENDS Integers, Sequences, FiniteSets, TLC

\* root        the validator the caller built and holds (BaseValidator, with
\*             its children)
\* value       the value given to the last validate call
\* field_path  the path given to it
\* result      the ValidationResult it returned
\* hash_order  the order in which the set of extra keys is iterated: it
\*             follows the hashes of the keys (which differ from one run of
\*             the program to the next) and the order in which the keys
\*             were put into the dict
\* pc          "config": no Result is held; "validated": one is; "raised":
\*             the last validate call raised an exception and returned
\*             nothing; "again": the Result of the last call is held, and
\*             the same value is about to be validated once more
\* threads     for each thread that calls root.validate: where its call is,
\*             and the frames of the validate methods it is in
\* heap        the lists of errors of the ValidationResult objects that the
\*             threads' calls have created, by the identity of the list
\* returned    the node that the last factory or setter call on the root
\*             returned, as its caller finds it
\* verr_args   the arguments of the last ValidationError(...) call
\* verr        the ValidationError it built
\* made        a ValidationResult that a caller built itself
\* products    self.products of a ProductFilteringSystem
\* query       the arguments of its last filter_products call
\* filtered    the list that call returned
VARIABLES root, value, field_path, result, hash_order, pc, threads, heap,
          returned, verr_args, verr, made, products, query, filtered

vars ==
    <<root, value, field_path, result, hash_order, pc, threads, heap, returned,
      verr_args, verr, made, products, query, filtered>>

\* what the calls on a validator tree leave alone
rest_vars == <<verr_args, verr, made, products, query, filtered>>

\* what the calls that are not made on a validator tree leave alone
tree_vars ==
    <<root, value, field_path, result, hash_order, pc, threads, heap, returned>>

\* what a call by the one caller of root, value, result and pc leaves alone
other_vars == <<threads, heap>>

\* ---------------------------------------------------------------- bounds

\* the threads that call validate on the one tree at the same time
NumThreads == 2
MaxTextLen == 2
MaxErrors == 4
MaxProducts == 2
\* longest string over Alphabet among the input values
MaxStrLen == 2
\* longest list among the input values
MaxItems == 2
\* the integer inputs are -1 .. MaxNum
MaxNum == 2

\* ---------------------------------------------------------------- values

None == <<>>

NoneV == [t |-> "none", v |-> 0]
BoolV(b) == [t |-> "bool", v |-> b]
IntV(n) == [t |-> "int", v |-> n]
FloatV(halves) == [t |-> "float", v |-> halves]
StrV(chars) == [t |-> "str", v |-> chars]
DatetimeV == [t |-> "datetime", v |-> 0]
DateV == [t |-> "date", v |-> 0]
ListV(items) == [t |-> "list", v |-> items]
DictV(f) == [t |-> "dict", v |-> f]

EmptyDict == DictV(<<>>)

\* A dict key, and so the field path built from it, is a str or the int 0.
\* The int 0 is written as this string, which is no key of any input.
IntKeyZero == "int(0)"

\* f"{x}" of a str or of the int 0
py_str(x) == IF x = IntKeyZero THEN "0" ELSE x

\* the truth value of a str or of the int 0: "" and 0 are falsy
py_bool(x) == x \notin {"", IntKeyZero}

\* isinstance(value, cls): bool is a subclass of int in Python
isinstance(val, cls) ==
    CASE cls = "str" -> val.t = "str"
      [] cls = "bool" -> val.t = "bool"
      [] cls = "int" -> val.t \in {"int", "bool"}
      [] cls = "float" -> val.t = "float"
      [] cls = "datetime" -> val.t = "datetime"
      [] cls = "list" -> val.t = "list"
      [] cls = "dict" -> val.t = "dict"

\* the numeric value of an int, bool or float, in halves (True is 1, False 0)
Halves(val) ==
    CASE val.t = "int" -> 2 * val.v
      [] val.t = "bool" -> (IF val.v THEN 2 ELSE 0)
      [] val.t = "float" -> val.v

\* str(n) of a non-negative number of halves: "3", "1.5", "2.0"
FormatHalves(h, isFloat) ==
    IF ~isFloat THEN ToString(h \div 2)
    ELSE ToString(h \div 2) \o (IF h % 2 = 0 THEN ".0" ELSE ".5")

\* f"{x}" of an int or float
FormatNumber(val) ==
    LET h == Halves(val)
        f == val.t = "float"
    IN  IF h < 0 THEN "-" \o FormatHalves(0 - h, f) ELSE FormatHalves(h, f)

\* ---------------------------------------------------------------- regex

Digits == {"0", "1", "2", "3", "4", "5", "6", "7", "8", "9"}

\* re.compile(r"^\d{n}$") and re.compile(r"\d{n}"): a compiled pattern is
\* [digits |-> n, dollar |-> whether it ends with $]
re_compile(n, dollar) == [digits |-> n, dollar |-> dollar]

\* pattern.match(s) is not None: the match is anchored at the start of s;
\* $ matches at the end of s and before a newline that ends s
re_match(p, s) ==
    /\ Len(s) >= p.digits
    /\ \A i \in 1..p.digits : s[i] \in Digits
    /\ p.dollar =>
         \/ Len(s) = p.digits
         \/ Len(s) = p.digits + 1 /\ s[Len(s)] = "\n"

\* ---------------------------------------------------------------- strptime

\* A date format is the sequence of its directives and literal characters,
\* <<"%Y", "-", "%m", "-", "%d">> for "%Y-%m-%d".
DefaultDateFormat == <<"%Y", "-", "%m", "-", "%d">>

RECURSIVE Join(_)
\* the format string itself, as it is printed in a message
Join(tokens) == IF tokens = <<>> THEN "" ELSE Head(tokens) \o Join(Tail(tokens))

DigitVal(c) == CHOOSE n \in 0..9 : ToString(n) = c

IsDigitAt(s, i) == i <= Len(s) /\ s[i] \in Digits

\* the number of characters the directive takes at position i of s (0: no
\* match), as the directive's regular expression in _strptime does:
\*   %Y  \d\d\d\d      %m  1[0-2]|0[1-9]|[1-9]
\*   %d  3[01]|[12]\d|0[1-9]|[1-9]
DirectiveWidth(tok, s, i) ==
    LET two == IsDigitAt(s, i) /\ IsDigitAt(s, i + 1)
        n2 == IF two THEN 10 * DigitVal(s[i]) + DigitVal(s[i + 1]) ELSE 0
        one == IsDigitAt(s, i) /\ DigitVal(s[i]) >= 1
    IN  CASE tok = "%Y" ->
               (IF two /\ IsDigitAt(s, i + 2) /\ IsDigitAt(s, i + 3) THEN 4 ELSE 0)
          [] tok = "%m" ->
               (IF two /\ n2 >= 1 /\ n2 <= 12 THEN 2 ELSE IF one THEN 1 ELSE 0)
          [] tok = "%d" ->
               (IF two /\ n2 >= 1 /\ n2 <= 31 THEN 2 ELSE IF one THEN 1 ELSE 0)
          [] OTHER -> (IF i <= Len(s) /\ s[i] = tok THEN 1 ELSE 0)

RECURSIVE NumberAt(_, _, _)
\* int(s[i .. i+w-1])
NumberAt(s, i, w) ==
    IF w = 0 THEN 0 ELSE 10 * NumberAt(s, i, w - 1) + DigitVal(s[i + w - 1])

IsLeap(y) == y % 4 = 0 /\ (y % 100 # 0 \/ y % 400 = 0)

DaysInMonth(y, m) ==
    IF m = 2 THEN (IF IsLeap(y) THEN 29 ELSE 28)
    ELSE IF m \in {4, 6, 9, 11} THEN 30 ELSE 31

RECURSIVE ParseDate(_, _, _, _, _)
\* TRUE iff the rest of the format (from token j) matches the rest of s
\* (from character i) and the fields found make a date; a field the format
\* does not name keeps its default (1900-01-01)
ParseDate(s, i, fmt, j, fields) ==
    IF j > Len(fmt)
    THEN /\ i = Len(s) + 1
         /\ fields.Y >= 1
         /\ fields.d <= DaysInMonth(fields.Y, fields.m)
    ELSE LET tok == fmt[j]
             w == DirectiveWidth(tok, s, i)
             n == NumberAt(s, i, w)
             next == CASE tok = "%Y" -> [fields EXCEPT !.Y = n]
                       [] tok = "%m" -> [fields EXCEPT !.m = n]
                       [] tok = "%d" -> [fields EXCEPT !.d = n]
                       [] OTHER -> fields
         IN  w > 0 /\ ParseDate(s, i + w, fmt, j + 1, next)

\* datetime.strptime(s, fmt), for a format that names no directive twice:
\* it returns (TRUE) or raises ValueError (FALSE).
\* Every numeric directive of the formats used here is followed by a literal
\* character or ends the format, so the regular expression never backtracks
\* into a shorter field.
strptime(s, fmt) == ParseDate(s, 1, fmt, 1, [Y |-> 1900, m |-> 1, d |-> 1])

\* _strptime turns the format into a regular expression with one named
\* group per directive. A directive that occurs twice defines its group
\* twice, and compiling the expression raises re.error
RepeatsDirective(fmt) ==
    \E i, j \in DOMAIN fmt :
        i < j /\ fmt[i] = fmt[j] /\ fmt[i] \in {"%Y", "%m", "%d"}

\* the exception datetime.strptime(s, fmt) raises, "" if it returns; the
\* format is compiled before s is looked at
strptime_raises(s, fmt) ==
    IF RepeatsDirective(fmt) THEN "re.error"
    ELSE IF strptime(s, fmt) THEN ""
    ELSE "ValueError"

\* ---------------------------------------------------------------- error

\* mutation of ValidationError: the path and ": " are put in front of the
\* message also when the path is empty
ValidationError_always_prefix(message, path) ==
    [message |-> message, field_path |-> path,
     args |-> <<path \o ": " \o message>>]

\* ValidationError(message, field_path): the two attributes, and the one
\* argument that its __init__ hands on to Exception.__init__
ValidationError(message, path) ==
    [message |-> message, field_path |-> path,
     args |-> <<IF path # "" THEN path \o ": " \o message ELSE message>>]

\* str(self) of an exception with one argument: that argument
ValidationError_str(self) == self.args[1]

\* ---------------------------------------------------------------- result

\* ValidationResult(): is_valid = True, errors = []
ValidationResult == [is_valid |-> TRUE, errors |-> <<>>]

\* ValidationResult(is_valid, errors): the flag as given, and errors or []:
\* the list given, or a new empty list for None and for an empty list (both
\* are <<>> here)
ValidationResult_init(is_valid, errors) ==
    [is_valid |-> is_valid, errors |-> IF errors = <<>> THEN <<>> ELSE errors]

\* what a validate call that raises exc leaves in the place of a Result: the
\* exception, on its way to the caller
Raise(exc) == [is_valid |-> FALSE, errors |-> <<>>, raised |-> exc]

IsRaised(res) == "raised" \in DOMAIN res

add_error(res, error) ==
    [is_valid |-> FALSE, errors |-> Append(res.errors, error)]

\* ---------------------------------------------------------------- nodes

\* Schema.string(), Schema.number(), ...: a node as its __init__ leaves it
Schema_string ==
    [kind |-> "string", _optional |-> FALSE, _custom_message |-> None,
     _min_length |-> None, _max_length |-> None, _pattern |-> None]

Schema_number ==
    [kind |-> "number", _optional |-> FALSE, _custom_message |-> None,
     _min_value |-> None, _max_value |-> None, _integer_only |-> FALSE]

Schema_boolean ==
    [kind |-> "boolean", _optional |-> FALSE, _custom_message |-> None]

Schema_date ==
    [kind |-> "date", _optional |-> FALSE, _custom_message |-> None,
     _date_format |-> DefaultDateFormat]

Schema_array(item_validator) ==
    [kind |-> "array", _optional |-> FALSE, _custom_message |-> None,
     item_validator |-> item_validator,
     _min_length |-> None, _max_length |-> None]

\* schema is the sequence of the <<field name, validator>> pairs of the
\* dictionary given, in its (insertion) order
Schema_object(schema) ==
    [kind |-> "object", _optional |-> FALSE, _custom_message |-> None,
     schema |-> schema, _strict |-> FALSE]

\* the fluent setters: each returns the node it was called on, changed
\* mutation of optional: the call also takes the custom message away
optional_drops_message(self) ==
    [self EXCEPT !._optional = TRUE, !._custom_message = None]

optional(self) == [self EXCEPT !._optional = TRUE]

with_message(self, message) == [self EXCEPT !._custom_message = <<message>>]
min_length(self, length) == [self EXCEPT !._min_length = <<length>>]
max_length(self, length) == [self EXCEPT !._max_length = <<length>>]
pattern(self, regex) == [self EXCEPT !._pattern = <<regex>>]
min_value(self, val) == [self EXCEPT !._min_value = <<val>>]
max_value(self, val) == [self EXCEPT !._max_value = <<val>>]
integer(self) == [self EXCEPT !._integer_only = TRUE]
format(self, date_format) == [self EXCEPT !._date_format = date_format]
strict(self) == [self EXCEPT !._strict = TRUE]

\* mutation of _create_error: the path and ": " are put in front of the
\* message also when the path is empty
_create_error_always_prefix(self, message, path) ==
    LET error_msg == IF self._custom_message # None /\ self._custom_message[1] # ""
                     THEN self._custom_message[1]
                     ELSE message
    IN  py_str(path) \o ": " \o error_msg

\* self._custom_message or message: None and "" are both falsy; the path is
\* tested for truth, and it is the key itself for an extra key at the root
_create_error(self, message, path) ==
    LET error_msg == IF self._custom_message # None /\ self._custom_message[1] # ""
                     THEN self._custom_message[1]
                     ELSE message
    IN  IF py_bool(path) THEN py_str(path) \o ": " \o error_msg ELSE error_msg

\* ---------------------------------------------------------------- validate

\* not value: None, False, 0, 0.0, "", [] and {} are falsy
not_value(val) ==
    CASE val.t = "none" -> TRUE
      [] val.t = "bool" -> ~val.v
      [] val.t \in {"int", "float"} -> val.v = 0
      [] val.t \in {"str", "list"} -> val.v = <<>>
      [] val.t = "dict" -> DOMAIN val.v = {}
      [] OTHER -> FALSE

\* mutation of is_None: `if not value` in place of `if value is None`
is_None_falsy(val) == not_value(val)

\* value is None: absence is the None sentinel, not falsiness
is_None(val) == val.t = "none"

\* mutation of Absent: the required error is built without the field path
Absent_no_path(self, path) ==
    IF self._optional THEN ValidationResult
    ELSE add_error(ValidationResult, _create_error(self, "Field is required", ""))

\* mutation of Absent: the optional flag is not consulted
Absent_ignores_optional(self, path) ==
    add_error(ValidationResult, _create_error(self, "Field is required", path))

\* the absence check every validate starts with: the Result it returns for
\* None
Absent(self, path) ==
    IF self._optional THEN ValidationResult
    ELSE add_error(ValidationResult, _create_error(self, "Field is required", path))

\* mutation of StringValidator.validate: it returns at the first constraint
\* that is violated
StringValidator_validate_first_only(self, val, path) ==
    IF is_None(val) THEN Absent(self, path)
    ELSE IF ~isinstance(val, "str")
    THEN add_error(ValidationResult, _create_error(self, "Must be a string", path))
    ELSE IF self._min_length # None /\ Len(val.v) < self._min_length[1]
    THEN add_error(ValidationResult, _create_error(self,
             "String must be at least " \o ToString(self._min_length[1])
             \o " characters long", path))
    ELSE IF self._max_length # None /\ Len(val.v) > self._max_length[1]
    THEN add_error(ValidationResult, _create_error(self,
             "String must be at most " \o ToString(self._max_length[1])
             \o " characters long", path))
    ELSE IF self._pattern # None /\ ~re_match(self._pattern[1], val.v)
    THEN add_error(ValidationResult, _create_error(self,
             "String does not match required pattern", path))
    ELSE ValidationResult

StringValidator_validate(self, val, path) ==
    IF is_None(val) THEN Absent(self, path)
    ELSE IF ~isinstance(val, "str")
    THEN add_error(ValidationResult, _create_error(self, "Must be a string", path))
    ELSE LET r0 == ValidationResult
             r1 == IF self._min_length # None /\ Len(val.v) < self._min_length[1]
                   THEN add_error(r0, _create_error(self,
                            "String must be at least " \o ToString(self._min_length[1])
                            \o " characters long", path))
                   ELSE r0
             r2 == IF self._max_length # None /\ Len(val.v) > self._max_length[1]
                   THEN add_error(r1, _create_error(self,
                            "String must be at most " \o ToString(self._max_length[1])
                            \o " characters long", path))
                   ELSE r1
             r3 == IF self._pattern # None /\ ~re_match(self._pattern[1], val.v)
                   THEN add_error(r2, _create_error(self,
                            "String does not match required pattern", path))
                   ELSE r2
         IN  r3

\* mutation of NumberValidator_validate: the two bounds are exclusive
NumberValidator_validate_exclusive(self, val, path) ==
    IF is_None(val) THEN Absent(self, path)
    ELSE IF ~(isinstance(val, "int") \/ isinstance(val, "float"))
    THEN add_error(ValidationResult, _create_error(self, "Must be a number", path))
    ELSE LET r0 == ValidationResult
             r1 == IF self._integer_only /\ ~isinstance(val, "int")
                   THEN add_error(r0, _create_error(self, "Must be an integer", path))
                   ELSE r0
             r2 == IF self._min_value # None /\ Halves(val) <= Halves(self._min_value[1])
                   THEN add_error(r1, _create_error(self,
                            "Number must be at least "
                            \o FormatNumber(self._min_value[1]), path))
                   ELSE r1
             r3 == IF self._max_value # None /\ Halves(val) >= Halves(self._max_value[1])
                   THEN add_error(r2, _create_error(self,
                            "Number must be at most "
                            \o FormatNumber(self._max_value[1]), path))
                   ELSE r2
         IN  r3

\* mutation of NumberValidator_validate: it returns at the first constraint
\* that is violated
NumberValidator_validate_stops_early(self, val, path) ==
    IF is_None(val) THEN Absent(self, path)
    ELSE IF ~(isinstance(val, "int") \/ isinstance(val, "float"))
    THEN add_error(ValidationResult, _create_error(self, "Must be a number", path))
    ELSE IF self._integer_only /\ ~isinstance(val, "int")
    THEN add_error(ValidationResult, _create_error(self, "Must be an integer", path))
    ELSE IF self._min_value # None /\ Halves(val) < Halves(self._min_value[1])
    THEN add_error(ValidationResult, _create_error(self,
             "Number must be at least " \o FormatNumber(self._min_value[1]), path))
    ELSE IF self._max_value # None /\ Halves(val) > Halves(self._max_value[1])
    THEN add_error(ValidationResult, _create_error(self,
             "Number must be at most " \o FormatNumber(self._max_value[1]), path))
    ELSE ValidationResult

NumberValidator_validate(self, val, path) ==
    IF is_None(val) THEN Absent(self, path)
    ELSE IF ~(isinstance(val, "int") \/ isinstance(val, "float"))
    THEN add_error(ValidationResult, _create_error(self, "Must be a number", path))
    ELSE LET r0 == ValidationResult
             r1 == IF self._integer_only /\ ~isinstance(val, "int")
                   THEN add_error(r0, _create_error(self, "Must be an integer", path))
                   ELSE r0
             r2 == IF self._min_value # None /\ Halves(val) < Halves(self._min_value[1])
                   THEN add_error(r1, _create_error(self,
                            "Number must be at least "
                            \o FormatNumber(self._min_value[1]), path))
                   ELSE r1
             r3 == IF self._max_value # None /\ Halves(val) > Halves(self._max_value[1])
                   THEN add_error(r2, _create_error(self,
                            "Number must be at most "
                            \o FormatNumber(self._max_value[1]), path))
                   ELSE r2
         IN  r3

BooleanValidator_validate(self, val, path) ==
    IF is_None(val) THEN Absent(self, path)
    ELSE IF ~isinstance(val, "bool")
    THEN add_error(ValidationResult, _create_error(self, "Must be a boolean", path))
    ELSE ValidationResult

DateValidator_validate(self, val, path) ==
    IF is_None(val) THEN Absent(self, path)
    ELSE IF isinstance(val, "datetime") THEN ValidationResult
    ELSE IF isinstance(val, "str")
    THEN LET exc == strptime_raises(val.v, self._date_format)
         IN  IF exc = "" THEN ValidationResult
             ELSE IF exc = "ValueError"
             THEN add_error(ValidationResult, _create_error(self,
                      "Date must be in format " \o Join(self._date_format), path))
             ELSE Raise(exc)
    ELSE add_error(ValidationResult,
                   _create_error(self, "Must be a date or datetime string", path))

RECURSIVE validate(_, _, _)

\* mutation of item_path: the items are counted from 1
item_path_one_based(path, i) ==
    IF path # "" THEN path \o "[" \o ToString(i + 1) \o "]"
    ELSE "[" \o ToString(i + 1) \o "]"

\* item_path of item i of the enumeration (i counts from 0)
item_path(path, i) ==
    IF path # "" THEN path \o "[" \o ToString(i) \o "]"
    ELSE "[" \o ToString(i) \o "]"

\* mutation of Merge: the errors are extended, is_valid is left as it was
Merge_keeps_is_valid(res, child) ==
    IF ~child.is_valid
    THEN [is_valid |-> res.is_valid, errors |-> res.errors \o child.errors]
    ELSE res

\* result.errors.extend(child.errors); result.is_valid = False, when the
\* child's Result is not valid. An exception that the child's validate
\* raised is not caught: it ends the loop and goes on to the caller.
Merge(res, child) ==
    IF IsRaised(res) THEN res
    ELSE IF IsRaised(child) THEN child
    ELSE IF ~child.is_valid
    THEN [is_valid |-> FALSE, errors |-> res.errors \o child.errors]
    ELSE res

RECURSIVE ArrayItems(_, _, _, _, _)
\* mutation of ArrayItems: each error of an item goes through the array's own
\* _create_error, so the array's custom message replaces it
ArrayItems_own_message(self, items, i, path, res) ==
    IF i >= Len(items) THEN res
    ELSE LET child == validate(self.item_validator, items[i + 1], item_path(path, i))
             own == [is_valid |-> child.is_valid,
                     errors |-> [k \in DOMAIN child.errors |->
                                    _create_error(self, child.errors[k], "")]]
         IN  ArrayItems(self, items, i + 1, path, Merge(res, own))

\* mutation of ArrayItems: the loop ends at the first item that is not valid
ArrayItems_stop_at_first(self, items, i, path, res) ==
    IF i >= Len(items) THEN res
    ELSE LET child == validate(self.item_validator, items[i + 1], item_path(path, i))
         IN  IF child.is_valid THEN ArrayItems(self, items, i + 1, path, res)
             ELSE Merge(res, child)

\* the loop over enumerate(value), from the item at index i (0-based) on
ArrayItems(self, items, i, path, res) ==
    IF i >= Len(items) THEN res
    ELSE ArrayItems(self, items, i + 1, path,
             Merge(res, validate(self.item_validator, items[i + 1], item_path(path, i))))

\* mutation of ArrayValidator_validate: a list as long as the minimum is
\* too short
ArrayValidator_validate_min_exclusive(self, val, path) ==
    IF is_None(val) THEN Absent(self, path)
    ELSE IF ~isinstance(val, "list")
    THEN add_error(ValidationResult, _create_error(self, "Must be an array", path))
    ELSE LET r0 == ValidationResult
             r1 == IF self._min_length # None /\ Len(val.v) <= self._min_length[1]
                   THEN add_error(r0, _create_error(self,
                            "Array must have at least " \o ToString(self._min_length[1])
                            \o " items", path))
                   ELSE r0
             r2 == IF self._max_length # None /\ Len(val.v) > self._max_length[1]
                   THEN add_error(r1, _create_error(self,
                            "Array must have at most " \o ToString(self._max_length[1])
                            \o " items", path))
                   ELSE r1
         IN  ArrayItems(self, val.v, 0, path, r2)

\* the two length checks on a list: the Result as the loop over the items
\* finds it
ArrayLengths(self, val, path) ==
    LET r0 == ValidationResult
        r1 == IF self._min_length # None /\ Len(val.v) < self._min_length[1]
              THEN add_error(r0, _create_error(self,
                       "Array must have at least " \o ToString(self._min_length[1])
                       \o " items", path))
              ELSE r0
        r2 == IF self._max_length # None /\ Len(val.v) > self._max_length[1]
              THEN add_error(r1, _create_error(self,
                       "Array must have at most " \o ToString(self._max_length[1])
                       \o " items", path))
              ELSE r1
    IN  r2

ArrayValidator_validate(self, val, path) ==
    IF is_None(val) THEN Absent(self, path)
    ELSE IF ~isinstance(val, "list")
    THEN add_error(ValidationResult, _create_error(self, "Must be an array", path))
    ELSE ArrayItems(self, val.v, 0, path, ArrayLengths(self, val, path))

\* field_full_path of a field of an object validated at path
field_full_path(path, field) ==
    IF path # "" THEN path \o "." \o py_str(field) ELSE field

\* the names the schema declares: set(self.schema.keys())
SchemaKeys(self) == {self.schema[k][1] : k \in 1..Len(self.schema)}

\* set(value.keys()) - set(self.schema.keys()), in the order the iteration
\* over this set takes (hash_order)
extra_fields(self, val) ==
    SelectSeq(hash_order, LAMBDA k : k \in (DOMAIN val.v) \ SchemaKeys(self))

RECURSIVE ExtraFields(_, _, _, _)
\* the loop over extra_fields
ExtraFields(self, fields, path, res) ==
    IF fields = <<>> THEN res
    ELSE ExtraFields(self, Tail(fields), path,
             add_error(res, _create_error(self,
                 "Extra field not allowed in strict mode",
                 field_full_path(path, Head(fields)))))

\* value.get(field_name)
dict_get(val, field_name) ==
    IF field_name \in DOMAIN val.v THEN val.v[field_name] ELSE NoneV

RECURSIVE SchemaFields(_, _, _, _, _)
\* mutation of SchemaFields: the loop ends at the first field that is not
\* valid
SchemaFields_stop_at_first(self, val, k, path, res) ==
    IF k > Len(self.schema) THEN res
    ELSE LET child == validate(self.schema[k][2], dict_get(val, self.schema[k][1]),
                               field_full_path(path, self.schema[k][1]))
         IN  IF child.is_valid THEN SchemaFields(self, val, k + 1, path, res)
             ELSE Merge(res, child)

\* mutation of SchemaFields: a strict validator hands its strict mode on to
\* the object validators of its fields
SchemaFields_strict_children(self, val, k, path, res) ==
    IF k > Len(self.schema) THEN res
    ELSE LET field_name == self.schema[k][1]
             field_validator == self.schema[k][2]
             handed_on == IF self._strict /\ field_validator.kind = "object"
                          THEN strict(field_validator)
                          ELSE field_validator
         IN  SchemaFields(self, val, k + 1, path,
                 Merge(res, validate(handed_on, dict_get(val, field_name),
                                     field_full_path(path, field_name))))

\* the loop over self.schema.items(), from the k-th declared field on
SchemaFields(self, val, k, path, res) ==
    IF k > Len(self.schema) THEN res
    ELSE LET field_name == self.schema[k][1]
             field_validator == self.schema[k][2]
         IN  SchemaFields(self, val, k + 1, path,
                 Merge(res, validate(field_validator, dict_get(val, field_name),
                                     field_full_path(path, field_name))))

\* mutation of ObjectValidator_validate: the declared fields are validated
\* first, the extra fields are reported after them
ObjectValidator_validate_fields_first(self, val, path) ==
    IF is_None(val) THEN Absent(self, path)
    ELSE IF ~isinstance(val, "dict")
    THEN add_error(ValidationResult, _create_error(self, "Must be an object", path))
    ELSE LET r1 == SchemaFields(self, val, 1, path, ValidationResult)
         IN  IF self._strict
             THEN ExtraFields(self, extra_fields(self, val), path, r1)
             ELSE r1

\* mutation of ObjectValidator_validate: the extra fields are reported
\* whether strict() was called or not
ObjectValidator_validate_always_strict(self, val, path) ==
    IF is_None(val) THEN Absent(self, path)
    ELSE IF ~isinstance(val, "dict")
    THEN add_error(ValidationResult, _create_error(self, "Must be an object", path))
    ELSE SchemaFields(self, val, 1, path,
             ExtraFields(self, extra_fields(self, val), path, ValidationResult))

\* the strict-mode check on a dict: the Result as the loop over the declared
\* fields finds it
ObjectExtras(self, val, path) ==
    IF self._strict
    THEN ExtraFields(self, extra_fields(self, val), path, ValidationResult)
    ELSE ValidationResult

ObjectValidator_validate(self, val, path) ==
    IF is_None(val) THEN Absent(self, path)
    ELSE IF ~isinstance(val, "dict")
    THEN add_error(ValidationResult, _create_error(self, "Must be an object", path))
    ELSE SchemaFields(self, val, 1, path, ObjectExtras(self, val, path))

\* self.validate(value, field_path): the method of the node's class
validate(self, val, path) ==
    CASE self.kind = "string" -> StringValidator_validate(self, val, path)
      [] self.kind = "number" -> NumberValidator_validate(self, val, path)
      [] self.kind = "boolean" -> BooleanValidator_validate(self, val, path)
      [] self.kind = "date" -> DateValidator_validate(self, val, path)
      [] self.kind = "array" -> ArrayValidator_validate(self, val, path)
      [] self.kind = "object" -> ObjectValidator_validate(self, val, path)

\* ---------------------------------------------------------------- calls

\* The validate calls a validate call makes on its children, in the order it
\* makes them: one per item of a list, one per declared field for a dict.
\* step says which child it is (the item's index, or the field's name).
ChildCalls(self, val, path) ==
    IF self.kind = "array" /\ isinstance(val, "list")
    THEN [i \in 1..Len(val.v) |->
            [self |-> self.item_validator, val |-> val.v[i],
             path |-> item_path(path, i - 1),
             step |-> [kind |-> "item", index |-> i - 1, name |-> ""]]]
    ELSE IF self.kind = "object" /\ isinstance(val, "dict")
    THEN [k \in 1..Len(self.schema) |->
            [self |-> self.schema[k][2], val |-> dict_get(val, self.schema[k][1]),
             path |-> field_full_path(path, self.schema[k][1]),
             step |-> [kind |-> "field", index |-> 0, name |-> self.schema[k][1]]]]
    ELSE <<>>

RECURSIVE Calls(_, _, _, _)
RECURSIVE CallsOfChildren(_, _, _)
\* every validate call of one pass, the root's first, each with the steps that
\* lead from the root's value to its value (trail)
Calls(self, val, path, trail) ==
    <<[self |-> self, val |-> val, path |-> path, trail |-> trail]>>
    \o CallsOfChildren(ChildCalls(self, val, path), 1, trail)

CallsOfChildren(children, k, trail) ==
    IF k > Len(children) THEN <<>>
    ELSE Calls(children[k].self, children[k].val, children[k].path,
               Append(trail, children[k].step))
         \o CallsOfChildren(children, k + 1, trail)

\* ---------------------------------------------------------------- inputs

Alphabet == {"1", "a"}

RECURSIVE SeqsUpTo(_, _)
\* the sequences over S of length at most n
SeqsUpTo(S, n) ==
    IF n = 0 THEN {<<>>}
    ELSE LET shorter == SeqsUpTo(S, n - 1)
         IN  shorter \cup {Append(q, x) : q \in shorter, x \in S}

Date_2024_01_15 == <<"2", "0", "2", "4", "-", "0", "1", "-", "1", "5">>
Date_2024_02_30 == <<"2", "0", "2", "4", "-", "0", "2", "-", "3", "0">>
Date_15_01_2024 == <<"1", "5", "/", "0", "1", "/", "2", "0", "2", "4">>

Strings ==
    SeqsUpTo(Alphabet, MaxStrLen)
    \cup {<<"1", "1", "\n">>, Date_2024_01_15, Date_2024_02_30, Date_15_01_2024}

Scalars ==
    {NoneV, BoolV(TRUE), BoolV(FALSE), FloatV(1), FloatV(4), DatetimeV, DateV}
    \cup {IntV(n) : n \in -1..MaxNum}
    \cup {StrV(q) : q \in Strings}

MixedList == ListV(<<IntV(1), StrV(<<"a">>)>>)

ListElems ==
    {NoneV, IntV(1), StrV(<<"1">>),
     DictV(("a" :> StrV(<<"1">>)) @@ ("x" :> IntV(1)))}

Lists == {ListV(q) : q \in SeqsUpTo(ListElems, MaxItems)}


ValuesOfA ==
    {NoneV, IntV(1), StrV(<<"1">>), MixedList, DictV("b" :> MixedList),
     DictV(("b" :> MixedList) @@ ("x" :> IntV(1)))}
ValuesOfB == {IntV(1), EmptyDict}

Dicts ==
    {DictV(fa @@ fb @@ fx) :
        fa \in {<<>>} \cup {"a" :> x : x \in ValuesOfA},
        fb \in {<<>>} \cup {"b" :> x : x \in ValuesOfB},
        fx \in {<<>>, "x" :> IntV(1), ("x" :> IntV(1)) @@ ("y" :> NoneV),
                 ("" :> IntV(1)) @@ ("y" :> IntV(1)), IntKeyZero :> IntV(1)}}

Values == Scalars \cup Lists \cup Dicts

Paths == {"", "p"}

\* the orders in which a set of field names is iterated: a process keeps one
HashOrders ==
    {<<"a", "b", "x", "y", "", IntKeyZero>>, <<IntKeyZero, "", "y", "x", "b", "a">>}

\* the arguments of the setters
Messages == {"", "Custom"}
MinLengths == {0, 2}
MaxLengths == {0}
Patterns == {re_compile(2, TRUE)}
MinValues == {IntV(0), FloatV(3)}
MaxValues == {IntV(1), IntV(-1)}
DateFormats == {<<"%d", "/", "%m", "/", "%Y">>, <<"%d", "/", "%d", "/", "%Y">>}

\* Schema.object({a: Schema.object({b: Schema.array(Schema.number())})})
PathExampleSchema ==
    Schema_object(<<<<"a", Schema_object(<<<<"b", Schema_array(Schema_number)>>>>)>>>>)

\* the validators a caller passes to Schema.array and Schema.object: built
\* and configured before the parent is
ItemValidators ==
    {Schema_string,
     with_message(min_length(Schema_string, 2), "Item"),
     optional(Schema_number),
     strict(Schema_object(<<<<"a", Schema_string>>>>))}

ObjectSchemas ==
    {<<>>,
     <<<<"a", Schema_string>>>>,
     <<<<"a", optional(Schema_string)>>, <<"b", integer(Schema_number)>>>>,
     <<<<"b", Schema_number>>, <<"a", with_message(Schema_date, "Child")>>>>,
     <<<<"a", Schema_object(<<<<"b", Schema_array(Schema_number)>>>>)>>>>,
     <<<<"a", min_length(Schema_array(Schema_string), 2)>>,
       <<"b", Schema_object(<<>>)>>>>,
     <<<<"a", format(Schema_date, <<"%Y", "-", "%Y">>)>>>>,
     <<<<"a", strict(Schema_object(<<<<"b", Schema_array(Schema_number)>>>>))>>>>}

\* ---------------------------------------------------------------- threads

Threads == 1..NumThreads

\* a thread that is in no validate call; errors is the identity of the list
\* of the Result that its call returned (0: none), visited the field paths
\* of the validate methods its call has entered, in the order it did
IdleThread ==
    [state |-> "idle", val |-> NoneV, path |-> "", stack |-> <<>>,
     is_valid |-> TRUE, errors |-> 0, visited |-> <<>>]

\* the trees and the values of the calls that run at the same time
ThreadTrees ==
    {max_length(Schema_array(with_message(min_length(Schema_string, 2), "Item")), 0),
     strict(Schema_object(<<<<"a", Schema_string>>>>)),
     Schema_object(<<<<"a", format(Schema_date, <<"%Y", "-", "%Y">>)>>>>)}

ThreadValues ==
    {NoneV,
     ListV(<<IntV(1), StrV(<<"1">>)>>),
     DictV(("a" :> IntV(1)) @@ ("x" :> IntV(1)) @@ ("y" :> NoneV)),
     DictV("a" :> StrV(<<"1">>))}

\* ---------------------------------------------------------------- actions

\* no ValidationError and no ValidationResult built by a caller, and no
\* products loaded
InitRest ==
    /\ verr_args = <<>>
    /\ verr = None
    /\ made = ValidationResult
    /\ products = <<>>
    /\ query = None
    /\ filtered = <<>>

\* a validator fresh from the Schema factory, in a process with some hash
\* order; no validate call has been made
Init ==
    /\ root \in {Schema_string, Schema_number, Schema_boolean, Schema_date}
                \cup {Schema_array(v) : v \in ItemValidators}
                \cup {Schema_object(sch) : sch \in ObjectSchemas}
    /\ hash_order \in HashOrders
    /\ value = NoneV
    /\ field_path = ""
    /\ result = ValidationResult
    /\ pc = "config"
    /\ threads = [t \in Threads |-> IdleThread]
    /\ heap = <<>>
    /\ returned = root
    /\ InitRest

\* a setter call on the root, chained after the factory call
Configure(node) ==
    /\ pc = "config"
    /\ root' = node
    /\ returned' = root'
    /\ UNCHANGED <<value, field_path, result, hash_order, pc, other_vars, rest_vars>>

Call_optional == Configure(optional(root))

Call_with_message == \E m \in Messages : Configure(with_message(root, m))

Call_min_length ==
    /\ root.kind \in {"string", "array"}
    /\ \E n \in MinLengths : Configure(min_length(root, n))

Call_max_length ==
    /\ root.kind \in {"string", "array"}
    /\ \E n \in MaxLengths : Configure(max_length(root, n))

Call_pattern ==
    /\ root.kind = "string"
    /\ \E p \in Patterns : Configure(pattern(root, p))

Call_min_value ==
    /\ root.kind = "number"
    /\ \E n \in MinValues : Configure(min_value(root, n))

Call_max_value ==
    /\ root.kind = "number"
    /\ \E n \in MaxValues : Configure(max_value(root, n))

Call_integer ==
    /\ root.kind = "number"
    /\ Configure(integer(root))

Call_format ==
    /\ root.kind = "date"
    /\ \E f \in DateFormats : Configure(format(root, f))

Call_strict ==
    /\ root.kind = "object"
    /\ Configure(strict(root))

\* mutation of Call_validate: the call leaves the root marked as optional
Call_validate_marks_optional ==
    \E v \in Values, p \in Paths :
        LET r == validate(root, v, p)
        IN  /\ pc = "config"
            /\ value' = v
            /\ field_path' = p
            /\ IF IsRaised(r)
               THEN result' = result /\ pc' = "raised"
               ELSE result' = r /\ pc' = "validated"
            /\ root' = optional(root)
            /\ UNCHANGED <<hash_order, other_vars, returned,
                           rest_vars>>

\* result = root.validate(v, p); if the call raises, nothing is assigned
Call_validate ==
    \E v \in Values, p \in Paths :
        LET r == validate(root, v, p)
        IN  /\ pc = "config"
            /\ value' = v
            /\ field_path' = p
            /\ IF IsRaised(r)
               THEN result' = result /\ pc' = "raised"
               ELSE result' = r /\ pc' = "validated"
            /\ UNCHANGED <<root, hash_order, other_vars, returned,
                           rest_vars>>

\* The caller is about to validate the value of the last call once more:
\* the same dict, or one equal to it whose keys were put in in another
\* order, in this run of the program or in another one. The set of the
\* extra keys will be built anew, and iterated in an order of its own.
Same_value_again ==
    /\ pc = "validated"
    /\ \E h \in HashOrders : hash_order' = h
    /\ pc' = "again"
    /\ UNCHANGED <<root, value, field_path, result, other_vars, returned,
                   rest_vars>>

\* result = root.validate(v, p) once more, for the value and the path of
\* the call before
Call_validate_again ==
    LET r == validate(root, value, field_path)
    IN  /\ pc = "again"
        /\ IF IsRaised(r)
           THEN result' = result /\ pc' = "raised"
           ELSE result' = r /\ pc' = "validated"
        /\ UNCHANGED <<root, value, field_path, hash_order, other_vars, returned,
                       rest_vars>>

\* the caller drops the Result, or has caught the exception; the validator
\* is kept, for the next call
Drop_result ==
    /\ pc \in {"validated", "raised"}
    /\ value' = NoneV
    /\ field_path' = ""
    /\ result' = ValidationResult
    /\ pc' = "config"
    /\ UNCHANGED <<root, hash_order, other_vars, returned,
                   rest_vars>>

Next ==
    \/ Call_optional
    \/ Call_with_message
    \/ Call_min_length
    \/ Call_max_length
    \/ Call_pattern
    \/ Call_min_value
    \/ Call_max_value
    \/ Call_integer
    \/ Call_format
    \/ Call_strict
    \/ Call_validate
    \/ Drop_result

Spec == Init /\ [][Next]_vars

\* the same, with callers that validate a value a second time
NextAgain ==
    \/ Next
    \/ Same_value_again
    \/ Call_validate_again

SpecAgain == Init /\ [][NextAgain]_vars

\* ------------------------------------------------- calls, step by step

\* One validate call is a stack of frames, one per validate method that has
\* been entered and has not returned. A frame has the method's self, value
\* and field_path, its local result (is_valid, and the identity of the list
\* result.errors in heap), and the number of the child the loop is at.

\* mutation of NewList: every Result gets the one list of a mutable default
\* argument
NewList_shared(h) == 1

\* errors or []: a list that no Result has yet
NewList(h) == CHOOSE n \in 1..(Cardinality(DOMAIN h) + 1) : n \notin DOMAIN h

\* the elements of the list with the identity list
ListAt(h, list) == IF list \in DOMAIN h THEN h[list] ELSE <<>>

\* heap without the lists that nothing refers to any more
Without(h, lists) == [l \in DOMAIN h \ lists |-> h[l]]

\* the method's code from result = ValidationResult() to its first call on
\* a child, or to its return if it makes none
FrameStart(self, val, path) ==
    IF self.kind = "array" /\ isinstance(val, "list") THEN ArrayLengths(self, val, path)
    ELSE IF self.kind = "object" /\ isinstance(val, "dict")
    THEN ObjectExtras(self, val, path)
    ELSE validate(self, val, path)

\* thread t, whose record is th, enters self.validate(val, path)
Enter(t, th, self, val, path) ==
    LET r == FrameStart(self, val, path)
        list == NewList(heap)
        frame == [self |-> self, val |-> val, path |-> path,
                  is_valid |-> r.is_valid, errors |-> list, next |-> 1]
    IN  IF IsRaised(r)
        THEN /\ threads' = [threads EXCEPT ![t] =
                               [th EXCEPT !.state = "raised", !.stack = <<>>,
                                          !.visited = Append(@, path)]]
             /\ heap' = Without(heap, {th.stack[i].errors : i \in DOMAIN th.stack})
        ELSE /\ threads' = [threads EXCEPT ![t] =
                               [th EXCEPT !.state = "running",
                                          !.stack = Append(th.stack, frame),
                                          !.visited = Append(@, path)]]
             /\ heap' = (list :> (ListAt(heap, list) \o r.errors)) @@ heap

\* thread t calls root.validate(v)
T_call(t) ==
    /\ threads[t].state = "idle"
    /\ \E v \in ThreadValues :
         Enter(t, [threads[t] EXCEPT !.val = v, !.path = ""], root, v, "")
    /\ UNCHANGED <<root, value, field_path, result, hash_order, pc, returned,
                   rest_vars>>

\* the loop of the method thread t is in calls validate on the next child
T_descend(t) ==
    LET th == threads[t]
        top == th.stack[Len(th.stack)]
        children == ChildCalls(top.self, top.val, top.path)
    IN  /\ th.state = "running"
        /\ top.next <= Len(children)
        /\ Enter(t, th, children[top.next].self, children[top.next].val,
                 children[top.next].path)
        /\ UNCHANGED <<root, value, field_path, result, hash_order, pc, returned,
                       rest_vars>>

\* mutation of T_return: the loop of the caller does not move on to the
\* next child
T_return_same_child(t) ==
    LET th == threads[t]
        n == Len(th.stack)
        top == th.stack[n]
        children == ChildCalls(top.self, top.val, top.path)
    IN  /\ th.state = "running"
        /\ top.next > Len(children)
        /\ IF n = 1
           THEN /\ threads' = [threads EXCEPT ![t] =
                                  [th EXCEPT !.state = "done", !.stack = <<>>,
                                             !.is_valid = top.is_valid,
                                             !.errors = top.errors]]
                /\ heap' = heap
           ELSE LET parent == th.stack[n - 1]
                    merged == IF ~top.is_valid
                              THEN [parent EXCEPT !.is_valid = FALSE]
                              ELSE parent
                    extended == IF ~top.is_valid
                                THEN (parent.errors :>
                                        (ListAt(heap, parent.errors)
                                         \o ListAt(heap, top.errors))) @@ heap
                                ELSE heap
                IN  /\ threads' = [threads EXCEPT ![t] =
                                      [th EXCEPT !.stack =
                                          Append(SubSeq(th.stack, 1, n - 2), merged)]]
                    /\ heap' = Without(extended, {top.errors} \ {parent.errors})
        /\ UNCHANGED <<root, value, field_path, result, hash_order, pc, returned,
                       rest_vars>>

\* the method thread t is in returns its result: to the loop of the method
\* that called it, which extends its own result with the errors if the
\* child is not valid, or to the caller of root.validate
T_return(t) ==
    LET th == threads[t]
        n == Len(th.stack)
        top == th.stack[n]
        children == ChildCalls(top.self, top.val, top.path)
    IN  /\ th.state = "running"
        /\ top.next > Len(children)
        /\ IF n = 1
           THEN /\ threads' = [threads EXCEPT ![t] =
                                  [th EXCEPT !.state = "done", !.stack = <<>>,
                                             !.is_valid = top.is_valid,
                                             !.errors = top.errors]]
                /\ heap' = heap
           ELSE LET parent == th.stack[n - 1]
                    merged == IF ~top.is_valid
                              THEN [parent EXCEPT !.is_valid = FALSE, !.next = @ + 1]
                              ELSE [parent EXCEPT !.next = @ + 1]
                    extended == IF ~top.is_valid
                                THEN (parent.errors :>
                                        (ListAt(heap, parent.errors)
                                         \o ListAt(heap, top.errors))) @@ heap
                                ELSE heap
                IN  /\ threads' = [threads EXCEPT ![t] =
                                      [th EXCEPT !.stack =
                                          Append(SubSeq(th.stack, 1, n - 2), merged)]]
                    /\ heap' = Without(extended, {top.errors} \ {parent.errors})
        /\ UNCHANGED <<root, value, field_path, result, hash_order, pc, returned,
                       rest_vars>>

\* ------------------------------------------- ValidationError, step by step

TextChars == {"a", ":", " "}

RECURSIVE TextsUpTo(_)
TextsUpTo(n) ==
    IF n = 0 THEN {""}
    ELSE LET shorter == TextsUpTo(n - 1)
         IN  shorter \cup {t \o c : t \in shorter, c \in TextChars}

\* the messages and the field paths given to ValidationError
Texts == TextsUpTo(MaxTextLen)

\* one validator that nobody calls
InitTree ==
    /\ root = Schema_string
    /\ hash_order = CHOOSE order \in HashOrders : TRUE
    /\ value = NoneV
    /\ field_path = ""
    /\ result = ValidationResult
    /\ pc = "config"
    /\ threads = [t \in Threads |-> IdleThread]
    /\ heap = <<>>
    /\ returned = root

\* ValidationError(message, field_path)
New_ValidationError ==
    \E message \in Texts, path \in Texts :
        /\ verr_args' = <<message, path>>
        /\ verr' = ValidationError(message, path)
        /\ UNCHANGED <<made, products, query, filtered, tree_vars>>

\* ValidationError(message): field_path is its default, ""
New_ValidationError_no_path ==
    \E message \in Texts :
        /\ verr_args' = <<message>>
        /\ verr' = ValidationError(message, "")
        /\ UNCHANGED <<made, products, query, filtered, tree_vars>>

InitError == InitTree /\ InitRest

NextError == New_ValidationError \/ New_ValidationError_no_path

SpecError == InitError /\ [][NextError]_vars

\* ------------------------------------------ ValidationResult, step by step

ErrorTexts == {"Error 1", "Error 2", "Error 3"}

\* the lists given to the constructor: None or [] (<<>>), one error, two
ErrorLists ==
    {<<>>} \cup {<<e>> : e \in ErrorTexts}
           \cup {<<e1, e2>> : e1 \in ErrorTexts, e2 \in ErrorTexts}

\* made = ValidationResult(is_valid, errors)
New_ValidationResult ==
    \E is_valid \in BOOLEAN, errors \in ErrorLists :
        /\ made' = ValidationResult_init(is_valid, errors)
        /\ UNCHANGED <<verr_args, verr, products, query, filtered, tree_vars>>

\* made.add_error(error)
Call_add_error ==
    \E error_text \in ErrorTexts :
        /\ Len(made.errors) < MaxErrors
        /\ made' = add_error(made, error_text)
        /\ UNCHANGED <<verr_args, verr, products, query, filtered, tree_vars>>

\* made = ValidationResult()
InitResult == InitTree /\ InitRest

NextResult == New_ValidationResult \/ Call_add_error

SpecResult == InitResult /\ [][NextResult]_vars

\* ------------------------------------------------------- filter_products
\*
\* A product is a record of name and category (strings, as sequences of
\* characters), price and rating (numbers) and in_stock (a bool). The
\* keyword arguments of a call are a record; an argument that is omitted or
\* None is None, one that is given is <<the value>>.

\* str.lower() of one character
lower_char(c) == IF c = "A" THEN "a" ELSE c

\* str.lower()
lower(str) == [i \in DOMAIN str |-> lower_char(str[i])]

\* ord(c)
ord(c) == CASE c = "A" -> 65 [] c = "a" -> 97 [] c = "b" -> 98

RECURSIVE str_lt(_, _)
\* s < t of two strings: by the first character in which they differ, a
\* proper prefix being the smaller
str_lt(str, other) ==
    CASE other = <<>> -> FALSE
      [] str = <<>> -> TRUE
      [] ord(Head(str)) # ord(Head(other)) -> ord(Head(str)) < ord(Head(other))
      [] OTHER -> str_lt(Tail(str), Tail(other))

\* keyword in text: keyword is a substring of text
str_in(keyword, text) ==
    \E i \in 0..(Len(text) - Len(keyword)) :
        SubSeq(text, i + 1, i + Len(keyword)) = keyword

\* the key functions of the three sort orders
sort_key(sort_by, x) ==
    CASE sort_by = "price" -> x.price
      [] sort_by = "rating" -> x.rating
      [] sort_by = "name" -> lower(x.name)

\* key(x) < key(y)
key_lt(sort_by, x, y) ==
    IF sort_by = "name"
    THEN str_lt(sort_key(sort_by, x), sort_key(sort_by, y))
    ELSE sort_key(sort_by, x) < sort_key(sort_by, y)

RECURSIVE sort_insert(_, _, _, _)
\* list, sorted already, with x put behind every item that does not have
\* to come after it
sort_insert(list, x, sort_by, reverse) ==
    IF list = <<>> THEN <<x>>
    ELSE LET x_first == IF reverse THEN key_lt(sort_by, Head(list), x)
                        ELSE key_lt(sort_by, x, Head(list))
         IN  IF x_first THEN <<x>> \o list
             ELSE <<Head(list)>> \o sort_insert(Tail(list), x, sort_by, reverse)

RECURSIVE sort_first(_, _, _, _)
\* the first n items of list, sorted
sort_first(list, n, sort_by, reverse) ==
    IF n = 0 THEN <<>>
    ELSE sort_insert(sort_first(list, n - 1, sort_by, reverse), list[n],
                     sort_by, reverse)

\* mutation of list_sort: reverse is not looked at
list_sort_ascending(list, sort_by, reverse) ==
    sort_first(list, Len(list), sort_by, FALSE)

\* list.sort(key=..., reverse=...): stable, also when reverse is True
list_sort(list, sort_by, reverse) ==
    sort_first(list, Len(list), sort_by, reverse)

\* the list comprehensions: a new list of the items that pass
by_category(list, category) ==
    SelectSeq(list, LAMBDA x : lower(x.category) = lower(category))

by_max_price(list, max_price) == SelectSeq(list, LAMBDA x : x.price <= max_price)

by_min_rating(list, min_rating) ==
    SelectSeq(list, LAMBDA x : x.rating >= min_rating)

by_stock(list, in_stock_only) ==
    SelectSeq(list, LAMBDA x : x.in_stock = in_stock_only)

by_names(list, product_names) ==
    LET name_keywords == [i \in DOMAIN product_names |-> lower(product_names[i])]
    IN  SelectSeq(list, LAMBDA x :
            \E i \in DOMAIN name_keywords : str_in(name_keywords[i], lower(x.name)))

\* mutation of list_copy: no copy is made, the list itself is handed on
list_copy_same_list(list) == list

\* list.copy(): a new list of the same items. A list is its items and
\* whether it is the list self.products or another one
list_copy(list) == [items |-> list.items, is_products |-> FALSE]

\* filter_products(**args) on self.products = self_products: the list it
\* returns, and self.products after the call, which are the items that the
\* in-place sort left in it if filtered_products was that very list
filter_products(self_products, args) ==
    LET copy == list_copy([items |-> self_products, is_products |-> TRUE])
        f0 == copy.items
        f1 == IF args.category # None /\ args.category[1] # <<>>
              THEN by_category(f0, args.category[1]) ELSE f0
        f2 == IF args.max_price # None
              THEN by_max_price(f1, args.max_price[1]) ELSE f1
        f3 == IF args.min_rating # None
              THEN by_min_rating(f2, args.min_rating[1]) ELSE f2
        f4 == IF args.in_stock_only # None
              THEN by_stock(f3, args.in_stock_only[1]) ELSE f3
        f5 == IF args.product_names # None /\ args.product_names[1] # <<>>
              THEN by_names(f4, args.product_names[1]) ELSE f4
        reverse == ~(args.ascending # None /\ args.ascending[1])
        f6 == IF args.sort_by # None
                 /\ args.sort_by[1] \in {"price", "rating", "name"}
              THEN list_sort(f5, args.sort_by[1], reverse) ELSE f5
        comprehended ==
            \/ args.category # None /\ args.category[1] # <<>>
            \/ args.max_price # None
            \/ args.min_rating # None
            \/ args.in_stock_only # None
            \/ args.product_names # None /\ args.product_names[1] # <<>>
        sorted_in_place == copy.is_products /\ ~comprehended
        f7 == IF args.limit # None /\ args.limit[1] # 0 /\ args.limit[1] > 0
              THEN SubSeq(f6, 1, IF args.limit[1] < Len(f6)
                                 THEN args.limit[1] ELSE Len(f6))
              ELSE f6
    IN  [self_products |-> IF sorted_in_place THEN f6 ELSE self_products,
         filtered_products |-> f7]

Product(name, category, price, rating, in_stock) ==
    [name |-> name, category |-> category, price |-> price,
     rating |-> rating, in_stock |-> in_stock]

\* three products: two of one price, two of one rating, two whose names
\* differ from their lower-case forms or are a part of each other
ProductRecords ==
    {Product(<<"A", "b">>, <<"A">>, 2, 1, TRUE),
     Product(<<"a">>, <<"a">>, 1, 2, FALSE),
     Product(<<"b">>, <<"b">>, 2, 2, TRUE)}

\* the lists of up to MaxProducts products, a product more than once too
ProductLists ==
    UNION {[1..n -> ProductRecords] : n \in 0..MaxProducts}

\* the keyword arguments of a call
Queries ==
    [category : {None, <<<<>>>>, <<<<"A">>>>, <<<<"b">>>>},
     max_price : {None, <<1>>},
     min_rating : {None, <<2>>},
     in_stock_only : {None, <<TRUE>>, <<FALSE>>},
     product_names : {None, <<<<<<"A">>>>>>},
     limit : {None, <<0>>, <<1>>, <<0 - 1>>},
     sort_by : {None, <<"price">>, <<"rating">>, <<"name">>, <<"stock">>},
     ascending : {None, <<TRUE>>, <<FALSE>>}]

\* a system whose products were loaded, before its first call
InitProducts ==
    /\ InitTree
    /\ verr_args = <<>>
    /\ verr = None
    /\ made = ValidationResult
    /\ products \in ProductLists
    /\ query = None
    /\ filtered = <<>>

\* filtered = self.filter_products(**args)
Call_filter_products ==
    \E args \in Queries :
        LET r == filter_products(products, args)
        IN  /\ query = None
            /\ query' = <<args>>
            /\ products' = r.self_products
            /\ filtered' = r.filtered_products
            /\ UNCHANGED <<verr_args, verr, made, tree_vars>>

NextProducts == Call_filter_products

SpecProducts == InitProducts /\ [][NextProducts]_vars

\* a tree that was built and configured, and threads that have not called it
InitThreads ==
    /\ root \in ThreadTrees
    /\ hash_order \in HashOrders
    /\ value = NoneV
    /\ field_path = ""
    /\ result = ValidationResult
    /\ pc = "config"
    /\ threads = [t \in Threads |-> IdleThread]
    /\ heap = <<>>
    /\ returned = root
    /\ InitRest

NextThreads == \E t \in Threads : T_call(t) \/ T_descend(t) \/ T_return(t)

SpecThreads == InitThreads /\ [][NextThreads]_vars

\* the same, on a machine that does not halt while a call is in progress:
\* some thread that is in a call takes its next step
SpecThreadsFair ==
    SpecThreads /\ WF_vars(\E t \in Threads : T_descend(t) \/ T_return(t))

\* ---------------------------------------------------------------- claims

Range(q) == {q[k] : k \in DOMAIN q}

\* "<fieldPath>: <message>", or the bare message for the empty path
Rendered(path, message) ==
    IF path = "" THEN message ELSE path \o ": " \o message

\* the texts the error of one failure of a node may carry: the default
\* message, or the node's custom message when one was set
OneOf(self, path, default) ==
    IF self._custom_message = None THEN {Rendered(path, default)}
    ELSE {Rendered(path, default), Rendered(path, self._custom_message[1])}

\* the calls of the pass that Call_validate made, the root's first
PassCalls == Calls(root, value, field_path, <<>>)

\* the Result a call of the pass returned
CallResult(c) == validate(c.self, c.val, c.path)

\* the message of the type check of each kind
TypeMessage(kind) ==
    CASE kind = "string" -> "Must be a string"
      [] kind = "number" -> "Must be a number"
      [] kind = "boolean" -> "Must be a boolean"
      [] kind = "date" -> "Must be a date or datetime string"
      [] kind = "array" -> "Must be an array"
      [] kind = "object" -> "Must be an object"

\* C1: validating a boolean with a number validator, however configured,
\* gives an invalid Result that contains "Must be a number" (or the custom
\* message), rendered with the path.
C1_BooleanIsNotANumber ==
    (pc = "validated" /\ root.kind = "number" /\ value.t = "bool")
    => /\ ~result.is_valid
       /\ Range(result.errors) \cap OneOf(root, field_path, "Must be a number") # {}

\* C2: the Result of the call, and the Result of every call made on a child
\* during the pass, is valid exactly when it has no errors.
C2_ValidIffNoErrors ==
    pc = "validated"
    => /\ result.is_valid <=> (result.errors = <<>>)
       /\ \A k \in DOMAIN PassCalls :
            CallResult(PassCalls[k]).is_valid
            <=> (CallResult(PassCalls[k]).errors = <<>>)

\* an array without length constraints whose Result is invalid through the
\* errors merged from two items
C2_Witness ==
    /\ pc = "validated"
    /\ root.kind = "array" /\ root._min_length = None /\ root._max_length = None
    /\ value.t = "list"
    /\ ~result.is_valid /\ Len(result.errors) = 2

\* C3: a validator that is not optional, of any kind and with any
\* constraints, returns for None an invalid Result with exactly one error:
\* "Field is required" (or the custom message) rendered with the path. This
\* holds for the root and for every child validated during the pass.
C3_RequiredWhenAbsent ==
    pc = "validated"
    => \A k \in DOMAIN PassCalls :
         LET c == PassCalls[k]
             r == IF k = 1 THEN result ELSE CallResult(c)
         IN  (c.val.t = "none" /\ ~c.self._optional)
             => /\ ~r.is_valid
                /\ Len(r.errors) = 1
                /\ r.errors[1] \in OneOf(c.self, c.path, "Field is required")

\* None given to a strict object validator that is not optional, at a path
C3_Witness ==
    /\ pc = "validated"
    /\ value.t = "none" /\ ~root._optional
    /\ root.kind = "object" /\ root._strict /\ root.schema # <<>>
    /\ field_path = "p"
    /\ result.errors = <<"p: Field is required">>

\* C4: a validator on which optional() was called, of any kind and with any
\* constraints, returns for None a valid Result without errors, and makes no
\* call on a child.
C4_OptionalWhenAbsent ==
    pc = "validated"
    => \A k \in DOMAIN PassCalls :
         LET c == PassCalls[k]
             r == IF k = 1 THEN result ELSE CallResult(c)
         IN  (c.val.t = "none" /\ c.self._optional)
             => /\ r.is_valid
                /\ r.errors = <<>>
                /\ Len(Calls(c.self, c.val, c.path, <<>>)) = 1

\* None given to an optional array validator with a minimum length
C4_Witness ==
    /\ pc = "validated"
    /\ value.t = "none" /\ root._optional
    /\ root.kind = "array" /\ root._min_length # None
    /\ result.is_valid

\* a value of a type the kind's type check refuses (whether a number validator
\* is to refuse a bool is what C1 is about: the pair is left out here)
TypeMismatch(kind, val) ==
    CASE kind = "string" -> val.t # "str"
      [] kind = "number" -> val.t \notin {"int", "float", "bool"}
      [] kind = "boolean" -> val.t # "bool"
      [] kind = "date" -> val.t \notin {"str", "datetime"}
      [] kind = "array" -> val.t # "list"
      [] kind = "object" -> val.t # "dict"

\* a constraint of the node that its falsy value (of the right type) violates
FalsyViolates(self, val) ==
    \/ /\ self.kind \in {"string", "array"}
       /\ self._min_length # None /\ self._min_length[1] > 0
    \/ /\ self.kind = "number"
       /\ \/ self._min_value # None /\ Halves(self._min_value[1]) > 0
          \/ self._max_value # None /\ Halves(self._max_value[1]) < 0

\* C5: 0, False, "", [] and {} are present values for every validator in the
\* pass: the Result is the same whether the node is optional or not, a value
\* of the wrong type gets the type error, a violated constraint is reported
\* also by an optional node, and "Field is required" is not reported.
C5_FalsyIsPresent ==
    pc = "validated"
    => \A k \in DOMAIN PassCalls :
         LET c == PassCalls[k]
             r == IF k = 1 THEN result ELSE CallResult(c)
             flipped == [c.self EXCEPT !._optional = ~c.self._optional]
         IN  (c.val.t # "none" /\ not_value(c.val))
             => /\ r = validate(flipped, c.val, c.path)
                /\ TypeMismatch(c.self.kind, c.val)
                   => /\ ~r.is_valid
                      /\ Len(r.errors) = 1
                      /\ r.errors[1] \in OneOf(c.self, c.path, TypeMessage(c.self.kind))
                /\ (~TypeMismatch(c.self.kind, c.val) /\ FalsyViolates(c.self, c.val))
                   => ~r.is_valid
                /\ c.self._custom_message = None
                   => Rendered(c.path, "Field is required") \notin Range(r.errors)

\* the empty string given to an optional string validator with a minimum
\* length: it is checked, and refused
C5_Witness ==
    /\ pc = "validated"
    /\ root.kind = "string" /\ root._optional /\ root._min_length # None
    /\ value.t = "str" /\ value.v = <<>>
    /\ ~result.is_valid

RECURSIVE ExpectedPath(_, _)
\* the path of the value that the steps of trail lead to, from the value at
\* path start: a field appends ".<name>" (the bare name to the empty path),
\* an item appends "[<index>]"
ExpectedPath(start, trail) ==
    IF trail = <<>> THEN start
    ELSE LET parent == ExpectedPath(start, SubSeq(trail, 1, Len(trail) - 1))
             last == trail[Len(trail)]
         IN  IF last.kind = "item"
             THEN parent \o "[" \o ToString(last.index) \o "]"
             ELSE IF parent = "" THEN last.name
             ELSE parent \o "." \o last.name

\* C6: every call of the pass gets the path composed from the root's path by
\* the steps to its value, and the errors it reports at that path are in the
\* root's Result; {a: {b: [1, "a"]}} against the example schema gives the one
\* error "a.b[1]: Must be a number".
C6_PathComposition ==
    pc = "validated"
    => /\ \A k \in DOMAIN PassCalls :
            LET c == PassCalls[k]
                expected == ExpectedPath(field_path, c.trail)
            IN  /\ c.path = expected
                /\ Range(validate(c.self, c.val, expected).errors)
                   \subseteq Range(result.errors)
       /\ ( /\ root.kind = "object" /\ root = PathExampleSchema
            /\ value.t = "dict" /\ DOMAIN value.v = {"a"}
            /\ value.v["a"].t = "dict" /\ value.v["a"] = DictV("b" :> MixedList)
            /\ field_path = "" )
          => result.errors = <<"a.b[1]: Must be a number">>

\* item 1 of field b of field a, below a root validated at path "p"
C6_Witness ==
    /\ pc = "validated"
    /\ root.kind = "object" /\ root = PathExampleSchema
    /\ field_path = "p"
    /\ result.errors = <<"p.a.b[1]: Must be a number">>

RECURSIVE ChildErrors(_, _)
\* the errors the calls on the children return, from the k-th child on, in
\* the order of the calls
ChildErrors(children, k) ==
    IF k > Len(children) THEN <<>>
    ELSE CallResult(children[k]).errors \o ChildErrors(children, k + 1)

\* the errors of a call's Result that the node raised itself: the Result
\* starts with them, the errors of the children follow
OwnErrors(c) ==
    LET r == CallResult(c)
        below == ChildErrors(ChildCalls(c.self, c.val, c.path), 1)
    IN  SubSeq(r.errors, 1, Len(r.errors) - Len(below))

\* the default messages of the failures a node can raise itself
DefaultMessages(self) ==
    {"Field is required", TypeMessage(self.kind)}
    \cup (IF self.kind = "string"
          THEN {"String must be at least " \o ToString(n[1]) \o " characters long" :
                    n \in {self._min_length} \ {None}}
               \cup {"String must be at most " \o ToString(n[1]) \o " characters long" :
                    n \in {self._max_length} \ {None}}
               \cup {"String does not match required pattern"}
          ELSE {})
    \cup (IF self.kind = "number"
          THEN {"Must be an integer"}
               \cup {"Number must be at least " \o FormatNumber(n[1]) :
                    n \in {self._min_value} \ {None}}
               \cup {"Number must be at most " \o FormatNumber(n[1]) :
                    n \in {self._max_value} \ {None}}
          ELSE {})
    \cup (IF self.kind = "date"
          THEN {"Date must be in format " \o Join(self._date_format)}
          ELSE {})
    \cup (IF self.kind = "array"
          THEN {"Array must have at least " \o ToString(n[1]) \o " items" :
                    n \in {self._min_length} \ {None}}
               \cup {"Array must have at most " \o ToString(n[1]) \o " items" :
                    n \in {self._max_length} \ {None}}
          ELSE {})
    \cup (IF self.kind = "object"
          THEN {"Extra field not allowed in strict mode"}
          ELSE {})

\* the messages an error of the node may carry: a default one, or the custom
\* message when one was set
NodeMessages(self) ==
    DefaultMessages(self)
    \cup {m[1] : m \in {self._custom_message} \ {None}}

\* C7, as claimed: every error a node of the pass raises itself is
\* "<fieldPath>: <message>" for the path given to its validate, and the bare
\* message when that path is empty.
C7_RenderedWithValidatePath ==
    pc = "validated"
    => \A k \in DOMAIN PassCalls :
         LET c == PassCalls[k]
         IN  \A e \in Range(OwnErrors(c)) :
               \E m \in NodeMessages(c.self) : e = Rendered(c.path, m)

\* the keys of a dict that the schema of the object validator does not declare
UndeclaredKeys(self, val) ==
    DOMAIN val.v \ {self.schema[k][1] : k \in 1..Len(self.schema)}

\* C7, amended: every error a node of the pass raises itself, other than a
\* strict-mode extra-field error, is "<fieldPath>: <message>" for the path
\* given to its validate, and the bare message when that path is empty; a
\* strict-mode extra-field error is rendered in the same way with the path of
\* the extra key ("<fieldPath>.<key>", the bare key for the empty path) in
\* the place of fieldPath. This is stated for dicts whose keys are strings.
C7_RenderedWithPath ==
    pc = "validated"
    => \A k \in DOMAIN PassCalls :
         LET c == PassCalls[k]
         IN  \A e \in Range(OwnErrors(c)) :
               IF c.self.kind = "object" /\ c.val.t = "dict"
               THEN /\ c.self._strict
                    /\ IntKeyZero \in DOMAIN c.val.v
                       \/ \E key \in UndeclaredKeys(c.self, c.val) :
                         \E m \in NodeMessages(c.self) :
                           e = Rendered(ExpectedPath(c.path,
                                   <<[kind |-> "field", index |-> 0, name |-> key]>>), m)
               ELSE \E m \in NodeMessages(c.self) : e = Rendered(c.path, m)

\* a strict object validated at path "p": the error of the extra key x is
\* rendered with "p.x", the error of the string validator of field a, which
\* is validated at "p.a", with "p.a"
C7_Witness ==
    /\ pc = "validated"
    /\ root.kind = "object" /\ root._strict
    /\ field_path = "p"
    /\ value.t = "dict" /\ DOMAIN value.v = {"x"}
    /\ result.errors = <<"p.x: Extra field not allowed in strict mode",
                         "p.a: Field is required">>

\* C8: with a custom message set on a node, every error the node raises
\* itself carries that text in place of the default message (rendered with
\* the path, that of the extra key for a strict-mode error).
C8_CustomMessageVerbatim ==
    pc = "validated"
    => \A k \in DOMAIN PassCalls :
         LET c == PassCalls[k]
             custom == c.self._custom_message[1]
             keys == IF c.self.kind = "object" /\ c.val.t = "dict"
                     THEN UndeclaredKeys(c.self, c.val) ELSE {}
         IN  c.self._custom_message # None
             => \A e \in Range(OwnErrors(c)) :
                  \/ e = Rendered(c.path, custom)
                  \/ \E key \in keys :
                       e = Rendered(ExpectedPath(c.path,
                               <<[kind |-> "field", index |-> 0, name |-> key]>>), custom)

\* C9: the errors of the children of an array or object validator are in its
\* Result as the children returned them, after the node's own errors,
\* whatever custom message the node has.
C9_ChildErrorsUnchanged ==
    pc = "validated"
    => \A k \in DOMAIN PassCalls :
         LET c == PassCalls[k]
             r == IF k = 1 THEN result ELSE CallResult(c)
             below == ChildErrors(ChildCalls(c.self, c.val, c.path), 1)
             plain == [c.self EXCEPT !._custom_message = None]
             rplain == validate(plain, c.val, c.path)
         IN  c.self.kind \in {"array", "object"}
             => /\ Len(r.errors) >= Len(below)
                /\ SubSeq(r.errors, Len(r.errors) - Len(below) + 1, Len(r.errors)) = below
                /\ Len(rplain.errors) = Len(r.errors)
                /\ below = ChildErrors(ChildCalls(plain, c.val, c.path), 1)

\* an array with a custom message and a minimum length, given one item that
\* is not a string: its own error carries the custom message, the item's
\* error the item validator's default message
C9_Witness ==
    /\ pc = "validated"
    /\ root.kind = "array" /\ root._custom_message = <<"Custom">>
    /\ result.errors = <<"Custom", "[0]: Must be a string">>

\* C10: a string validator given a string reports one error per violated
\* constraint, for the minimum length, the maximum length and the pattern, in
\* this order.
C10_AllStringViolations ==
    pc = "validated"
    => \A k \in DOMAIN PassCalls :
         LET c == PassCalls[k]
             r == IF k = 1 THEN result ELSE CallResult(c)
             n == Len(c.val.v)
             checks ==
               << [violated |-> c.self._min_length # None /\ n < c.self._min_length[1],
                   m |-> IF c.self._min_length = None THEN ""
                         ELSE "String must be at least "
                              \o ToString(c.self._min_length[1]) \o " characters long"],
                  [violated |-> c.self._max_length # None /\ n > c.self._max_length[1],
                   m |-> IF c.self._max_length = None THEN ""
                         ELSE "String must be at most "
                              \o ToString(c.self._max_length[1]) \o " characters long"],
                  [violated |-> c.self._pattern # None
                                /\ ~re_match(c.self._pattern[1], c.val.v),
                   m |-> "String does not match required pattern"] >>
             expected == SelectSeq(checks, LAMBDA x : x.violated)
         IN  (c.self.kind = "string" /\ c.val.t = "str")
             => /\ Len(r.errors) = Len(expected)
                /\ \A i \in DOMAIN expected :
                     r.errors[i] \in OneOf(c.self, c.path, expected[i].m)
                /\ r.is_valid <=> (expected = <<>>)

\* "a" given to a string validator with minimum length 2, maximum length 0
\* and a two-digit pattern: three errors
C10_Witness ==
    /\ pc = "validated"
    /\ root.kind = "string" /\ root._custom_message = None
    /\ field_path = ""
    /\ result.errors = <<"String must be at least 2 characters long",
                         "String must be at most 0 characters long",
                         "String does not match required pattern">>

\* C11: for an int or a float given to a number validator (the root or a
\* child), the errors are exactly those of the violated constraints, in this
\* order: "Must be an integer" iff integer() is set and the value is not an
\* int (a float is not, whatever its value), "Number must be at least N" iff
\* a minimum N is set and the value is below N, "Number must be at most N"
\* iff a maximum N is set and the value is above N. A value equal to a bound
\* violates nothing.
C11_NumberViolations ==
    pc = "validated"
    => \A k \in DOMAIN PassCalls :
         LET c == PassCalls[k]
             r == IF k = 1 THEN result ELSE CallResult(c)
             s == c.self
             notInt == s._integer_only /\ c.val.t # "int"
             below == s._min_value # None /\ Halves(c.val) < Halves(s._min_value[1])
             above == s._max_value # None /\ Halves(c.val) > Halves(s._max_value[1])
             n1 == IF notInt THEN 1 ELSE 0
             n2 == n1 + (IF below THEN 1 ELSE 0)
             n3 == n2 + (IF above THEN 1 ELSE 0)
         IN  (s.kind = "number" /\ c.val.t \in {"int", "float"})
             => /\ Len(r.errors) = n3
                /\ r.is_valid <=> n3 = 0
                /\ notInt => r.errors[n1] \in OneOf(s, c.path, "Must be an integer")
                /\ below => r.errors[n2] \in OneOf(s, c.path,
                                "Number must be at least " \o FormatNumber(s._min_value[1]))
                /\ above => r.errors[n3] \in OneOf(s, c.path,
                                "Number must be at most " \o FormatNumber(s._max_value[1]))

\* integer().min_value(0).max_value(1).optional() given -1: only the minimum
\* is violated
C11_Witness ==
    /\ pc = "validated"
    /\ root.kind = "number" /\ root._integer_only /\ root._optional
    /\ root._custom_message = None
    /\ root._min_value = <<IntV(0)>> /\ root._max_value = <<IntV(1)>>
    /\ value = IntV(-1) /\ field_path = ""
    /\ result.errors = <<"Number must be at least 0">>

\* a present value that is not of the kind the validator is for: a bool is
\* not a number
NotOfKind(kind, val) ==
    val.t # "none" /\ (TypeMismatch(kind, val) \/ (kind = "number" /\ val.t = "bool"))

\* C12: for every validator of the pass, of every kind, a present value that
\* is not of the validator's kind gets an invalid Result with exactly one
\* error, the kind's type message (or the custom message) rendered with the
\* path, and the validator makes no call on a child.
C12_TypeMismatchStops ==
    pc = "validated"
    => \A k \in DOMAIN PassCalls :
         LET c == PassCalls[k]
             r == IF k = 1 THEN result ELSE CallResult(c)
         IN  NotOfKind(c.self.kind, c.val)
             => /\ ~r.is_valid
                /\ Len(r.errors) = 1
                /\ r.errors[1] \in OneOf(c.self, c.path, TypeMessage(c.self.kind))
                /\ Len(Calls(c.self, c.val, c.path, <<>>)) = 1

RECURSIVE ItemErrors(_, _, _, _)
\* the errors that the validation of each item of items, from the i-th on
\* (i counts from 1), returns when it is validated on its own at the path
\* "<path>[<index>]", in the order of the items
ItemErrors(item_validator, items, path, i) ==
    IF i > Len(items) THEN <<>>
    ELSE validate(item_validator, items[i], path \o "[" \o ToString(i - 1) \o "]").errors
         \o ItemErrors(item_validator, items, path, i + 1)

\* C13: for a list given to an array validator (the root or a child), the
\* errors are the length errors (the minimum's, then the maximum's), whatever
\* the items are, followed by the errors of item 0, item 1, ... in index
\* order, each item contributing exactly what its own validation at
\* "<fieldPath>[<i>]" returns, whether an earlier item failed or not.
C13_ArrayErrors ==
    pc = "validated"
    => \A k \in DOMAIN PassCalls :
         LET c == PassCalls[k]
             r == IF k = 1 THEN result ELSE CallResult(c)
             s == c.self
             short == s._min_length # None /\ Len(c.val.v) < s._min_length[1]
             long == s._max_length # None /\ Len(c.val.v) > s._max_length[1]
             n1 == IF short THEN 1 ELSE 0
             n2 == n1 + (IF long THEN 1 ELSE 0)
             below == ItemErrors(s.item_validator, c.val.v, c.path, 1)
         IN  (s.kind = "array" /\ c.val.t = "list")
             => /\ Len(r.errors) = n2 + Len(below)
                /\ short => r.errors[n1] \in OneOf(s, c.path,
                       "Array must have at least " \o ToString(s._min_length[1]) \o " items")
                /\ long => r.errors[n2] \in OneOf(s, c.path,
                       "Array must have at most " \o ToString(s._max_length[1]) \o " items")
                /\ SubSeq(r.errors, n2 + 1, Len(r.errors)) = below

\* a list of two items that both fail, longer than the maximum: the length
\* error, then the error of item 0, then the error of item 1
C13_Witness ==
    /\ pc = "validated"
    /\ root.kind = "array" /\ root._max_length = <<0>>
    /\ value.t = "list" /\ Len(value.v) = 2
    /\ field_path = "p"
    /\ Len(result.errors) = 3
    /\ result.errors[1] = "p: Array must have at most 0 items"
    /\ \E m \in {"Must be a string", "Must be a number"} :
         /\ result.errors[2] = "p[0]: " \o m
         /\ result.errors[3] = "p[1]: " \o m

KeyPath(path, key) ==
    IF path = "" THEN py_str(key) ELSE path \o "." \o py_str(key)

\* C15: for a dict given to an object validator in strict mode (the root or
\* a child), the node's own errors are one per key that the schema does not
\* declare, and each such key has exactly one error, "Extra field not allowed
\* in strict mode" (or the custom message) at the path "<fieldPath>.<key>",
\* the bare "<key>" at the root; a declared key has none.
C15_StrictExtraFields ==
    pc = "validated"
    => \A k \in DOMAIN PassCalls :
         LET c == PassCalls[k]
             own == OwnErrors(c)
             extra == UndeclaredKeys(c.self, c.val)
         IN  (c.self.kind = "object" /\ c.self._strict /\ c.val.t = "dict")
             => /\ Len(own) = Cardinality(extra)
                /\ \A key \in extra :
                     Cardinality({i \in DOMAIN own :
                        own[i] \in OneOf(c.self, KeyPath(c.path, key),
                                         "Extra field not allowed in strict mode")}) = 1

\* the dict val without the keys that the schema of self does not declare
DeclaredPart(self, val) ==
    DictV([key \in DOMAIN val.v \ UndeclaredKeys(self, val) |-> val.v[key]])

\* C16: for a dict given to an object validator that is not in strict mode
\* (the root or a child), the Result is the one the validator returns for the
\* dict without its undeclared keys: which undeclared keys there are, and
\* what their values are, changes neither is_valid nor the errors.
C16_NonStrictIgnoresExtra ==
    pc = "validated"
    => \A k \in DOMAIN PassCalls :
         LET c == PassCalls[k]
             r == IF k = 1 THEN result ELSE CallResult(c)
         IN  (c.self.kind = "object" /\ ~c.self._strict /\ c.val.t = "dict")
             => r = validate(c.self, DeclaredPart(c.self, c.val), c.path)

\* a dict with two undeclared keys given to a non-strict object validator
\* that declares fields: the Result is valid
C16_Witness ==
    /\ pc = "validated"
    /\ root.kind = "object" /\ ~root._strict /\ root.schema # <<>>
    /\ value.t = "dict" /\ Cardinality(UndeclaredKeys(root, value)) = 2
    /\ result.is_valid /\ result.errors = <<>>

RECURSIVE FieldErrors(_, _, _, _)
\* the errors that the validation of each declared field, from the k-th of
\* the declaration on, returns when the field's validator is given the
\* dict's value for the field's name, None if the dict has no such key, at
\* the field's path
FieldErrors(schema, val, path, k) ==
    IF k > Len(schema) THEN <<>>
    ELSE LET name == schema[k][1]
             given == IF name \in DOMAIN val.v THEN val.v[name] ELSE NoneV
         IN  validate(schema[k][2], given, KeyPath(path, name)).errors
             \o FieldErrors(schema, val, path, k + 1)

\* the dict val with None for every declared name that is not a key of it
WithNoneForMissing(self, val) ==
    DictV([key \in DOMAIN val.v \cup {self.schema[k][1] : k \in 1..Len(self.schema)} |->
              IF key \in DOMAIN val.v THEN val.v[key] ELSE NoneV])

\* C17: for a dict given to an object validator (the root or a child), the
\* errors after the node's own are those of the declared fields, each
\* validated once, in the order of the declaration, against the dict's value
\* for its name, all of them whether an earlier field failed or not; a key
\* that is missing gives the Result that the key mapped to None gives.
C17_DeclaredFields ==
    pc = "validated"
    => \A k \in DOMAIN PassCalls :
         LET c == PassCalls[k]
             r == IF k = 1 THEN result ELSE CallResult(c)
             own == IF c.self._strict THEN Cardinality(UndeclaredKeys(c.self, c.val)) ELSE 0
             below == FieldErrors(c.self.schema, c.val, c.path, 1)
         IN  (c.self.kind = "object" /\ c.val.t = "dict")
             => /\ Len(r.errors) = own + Len(below)
                /\ SubSeq(r.errors, own + 1, Len(r.errors)) = below
                /\ r = validate(c.self, WithNoneForMissing(c.self, c.val), c.path)

\* {b: number, a: date} given {b: {}}: the error of b, then the error of a,
\* which is missing
C17_Witness ==
    /\ pc = "validated"
    /\ root.kind = "object" /\ ~root._strict
    /\ root.schema = <<<<"b", Schema_number>>, <<"a", with_message(Schema_date, "Child")>>>>
    /\ value = DictV("b" :> EmptyDict) /\ field_path = ""
    /\ result.errors = <<"b: Must be a number", "a: Child">>

\* the texts a strict-mode extra-field error of the call c may be: the
\* message (or the custom message) with the path of an undeclared key, or
\* without a path
ExtraFieldTexts(c) ==
    UNION {OneOf(c.self, x, "Extra field not allowed in strict mode") :
             x \in {""} \cup {KeyPath(c.path, key) : key \in UndeclaredKeys(c.self, c.val)}}

\* C18: in the Result of a strict object validator given a dict (the root or
\* a child), the extra-field errors, one per undeclared key, come first, and
\* the errors of the declared fields follow them.
C18_ExtraBeforeFields ==
    pc = "validated"
    => \A k \in DOMAIN PassCalls :
         LET c == PassCalls[k]
             r == IF k = 1 THEN result ELSE CallResult(c)
             n == Cardinality(UndeclaredKeys(c.self, c.val))
             below == FieldErrors(c.self.schema, c.val, c.path, 1)
         IN  (c.self.kind = "object" /\ c.self._strict /\ c.val.t = "dict")
             => /\ Len(r.errors) = n + Len(below)
                /\ \A i \in 1..n : r.errors[i] \in ExtraFieldTexts(c)
                /\ \A i \in 1..Len(below) : r.errors[n + i] = below[i]

\* {a: string} in strict mode given {a: 1, x: 1, y: None}: the errors of x
\* and y, then the error of a
C18_Witness ==
    /\ pc = "validated"
    /\ root.kind = "object" /\ root._strict /\ root._custom_message = None
    /\ root.schema = <<<<"a", Schema_string>>>>
    /\ value = DictV(("a" :> IntV(1)) @@ ("x" :> IntV(1)) @@ ("y" :> NoneV))
    /\ field_path = ""
    /\ Len(result.errors) = 3
    /\ {result.errors[1], result.errors[2]}
         = {"x: Extra field not allowed in strict mode",
            "y: Extra field not allowed in strict mode"}
    /\ result.errors[3] = "a: Must be a string"

\* C19: a second validate call on the same validator, with the value and the
\* path of the first, returns the Result the first returned: the same
\* is_valid and the same errors in the same order.
C19_SameResultAgain ==
    [][(pc = "again" /\ pc' = "validated") => result' = result]_vars

\* C20: whatever validator was built with the factory and the setters, and
\* whatever value it is given, the validate call returns a Result: it never
\* raises.
C20_ValidateReturns == pc # "raised"

RECURSIVE IsSubList(_, _)
\* the sequence a is b with some of b's elements left out
IsSubList(a, b) ==
    IF a = <<>> THEN TRUE
    ELSE IF b = <<>> THEN FALSE
    ELSE IF Head(a) = Head(b) THEN IsSubList(Tail(a), Tail(b))
    ELSE IsSubList(a, Tail(b))

\* the validators that one more constraint makes of self: a setter call for
\* a constraint that self does not have yet
WithOneMoreConstraint(self) ==
    (IF self.kind \in {"string", "array"} /\ self._min_length = None
     THEN {min_length(self, n) : n \in MinLengths} ELSE {})
    \cup (IF self.kind \in {"string", "array"} /\ self._max_length = None
          THEN {max_length(self, n) : n \in MaxLengths} ELSE {})
    \cup (IF self.kind = "string" /\ self._pattern = None
          THEN {pattern(self, p) : p \in Patterns} ELSE {})
    \cup (IF self.kind = "number" /\ self._min_value = None
          THEN {min_value(self, n) : n \in MinValues} ELSE {})
    \cup (IF self.kind = "number" /\ self._max_value = None
          THEN {max_value(self, n) : n \in MaxValues} ELSE {})
    \cup (IF self.kind = "number" /\ ~self._integer_only THEN {integer(self)} ELSE {})
    \cup (IF self.kind = "object" /\ ~self._strict THEN {strict(self)} ELSE {})

\* C21: for the value a validator of the pass was given, the validator with
\* one more constraint (a length, a pattern, a bound, integer or strict that
\* it did not have) reports every error it reported without it: the errors
\* without the constraint are a sub-list of the errors with it.
C21_MonotonicErrors ==
    pc = "validated"
    => \A k \in DOMAIN PassCalls :
         LET c == PassCalls[k]
             r == IF k = 1 THEN result ELSE CallResult(c)
         IN  \A more \in WithOneMoreConstraint(c.self) :
               IsSubList(r.errors, validate(more, c.val, c.path).errors)

\* 0.5 given to a number validator with max_value(-1): one error, and two
\* once integer() is added, the new one in front of the old one
C21_Witness ==
    /\ pc = "validated"
    /\ root.kind = "number" /\ ~root._integer_only /\ root._custom_message = None
    /\ root._max_value = <<IntV(-1)>>
    /\ value = FloatV(1) /\ field_path = ""
    /\ result.errors = <<"Number must be at most -1">>
    /\ validate(integer(root), value, field_path).errors
         = <<"Must be an integer", "Number must be at most -1">>

\* C22: a date validator of the pass (the root or a child) returns a Result
\* for every present value: a valid one without errors for a native date or
\* datetime object; for a string a valid one if the string parses under the
\* configured format, and else one with exactly one error, "Date must be in
\* format <format>" (or the custom message); for any other value one with
\* exactly one error, "Must be a date or datetime string".
C22_DateValidator ==
    pc \in {"validated", "raised"}
    => \A k \in DOMAIN PassCalls :
         LET c == PassCalls[k]
             r == CallResult(c)
             one(default) == /\ ~r.is_valid
                             /\ Len(r.errors) = 1
                             /\ r.errors[1] \in OneOf(c.self, c.path, default)
         IN  (c.self.kind = "date" /\ c.val.t # "none")
             => /\ ~IsRaised(r)
                /\ CASE c.val.t \in {"datetime", "date"} ->
                          r.is_valid /\ r.errors = <<>>
                     [] c.val.t = "str" ->
                          IF strptime(c.val.v, c.self._date_format)
                          THEN r.is_valid /\ r.errors = <<>>
                          ELSE one("Date must be in format " \o Join(c.self._date_format))
                     [] OTHER -> one("Must be a date or datetime string")

\* C23: a validate call, whatever value it is given and whether it returns
\* or raises, leaves the validator tree as it was: the root with all its
\* settings, and with them its children and theirs.
C23_TreeUnchanged ==
    [][(pc = "config" /\ pc' \in {"validated", "raised"}) => root' = root]_vars

\* a list of two items that fail was validated by an array validator with a
\* length constraint, an item validator of its own settings, and a custom
\* message
C23_Witness ==
    /\ pc = "validated"
    /\ root.kind = "array" /\ root._min_length # None /\ root._custom_message # None
    /\ root.item_validator = with_message(min_length(Schema_string, 2), "Item")
    /\ value.t = "list" /\ Len(value.v) = 2
    /\ Len(result.errors) = 2

\* the Result thread t holds after its call returned
ThreadResult(t) ==
    [is_valid |-> threads[t].is_valid, errors |-> ListAt(heap, threads[t].errors)]

\* C24: whatever the threads' calls on the tree are, and however their steps
\* are interleaved, a call that has returned holds the Result that the call
\* returns when it runs alone, and keeps holding it while the other calls go
\* on; a call raises only if it raises when it runs alone.
C24_SameAsAlone ==
    \A t \in Threads :
        LET alone == validate(root, threads[t].val, threads[t].path)
        IN  /\ threads[t].state = "done" => ThreadResult(t) = alone
            /\ threads[t].state = "raised" => IsRaised(alone)

\* thread 1 has returned with the three errors of its dict while thread 2
\* is two methods deep in the validation of another dict
C24_Witness ==
    /\ threads[1].state = "done"
    /\ threads[1].val.t = "dict"
    /\ Len(ThreadResult(1).errors) = 3
    /\ threads[2].state = "running"
    /\ threads[2].val.t = "dict" /\ threads[2].val # threads[1].val
    /\ Len(threads[2].stack) = 2

RECURSIVE Depth(_)
RECURSIVE MaxDepth(_, _)
\* the depth of the validator tree below self, self counted
Depth(self) ==
    CASE self.kind = "array" -> 1 + Depth(self.item_validator)
      [] self.kind = "object" -> 1 + MaxDepth(self.schema, 1)
      [] OTHER -> 1

\* the depth of the deepest validator among the fields from the k-th on
MaxDepth(schema, k) ==
    IF k > Len(schema) THEN 0
    ELSE LET d == Depth(schema[k][2])
             rest == MaxDepth(schema, k + 1)
         IN  IF d > rest THEN d ELSE rest

\* C25: a validate call never has more methods entered than the validator
\* tree is deep, enters a validate method for an item or a field at most
\* once (no field path is visited twice), and, once it has begun, comes to
\* its end: whenever calls are in progress, a moment follows at which every
\* one of them has returned its Result (or raised).
C25_Terminates ==
    /\ [](\A t \in Threads :
            /\ Len(threads[t].stack) <= Depth(root)
            /\ \A i, j \in DOMAIN threads[t].visited :
                 i # j => threads[t].visited[i] # threads[t].visited[j])
    /\ (\E t \in Threads : threads[t].state = "running")
         ~> (\A t \in Threads : threads[t].state \in {"idle", "done", "raised"})

\* the call on a list of two items has returned: the methods of the array
\* and of each item were entered, once each
C25_Witness ==
    /\ threads[1].state = "done"
    /\ threads[1].val.t = "list"
    /\ threads[1].visited = <<"", "[0]", "[1]">>

\* the call changed nothing of the root but its attribute attr
OnlyChanges(attr) ==
    /\ DOMAIN root' = DOMAIN root
    /\ \A other \in DOMAIN root \ {attr} : root'[other] = root[other]

\* C26: a setter call changes only the attribute of the node that it names,
\* every other attribute, the item validator and the schema with their own
\* settings included, staying as it was, and what it returns is the node it
\* was called on, with the change made.
C26_SettersFrame ==
    [][/\ Call_optional => OnlyChanges("_optional")
       /\ Call_with_message => OnlyChanges("_custom_message")
       /\ Call_min_length => OnlyChanges("_min_length")
       /\ Call_max_length => OnlyChanges("_max_length")
       /\ Call_pattern => OnlyChanges("_pattern")
       /\ Call_min_value => OnlyChanges("_min_value")
       /\ Call_max_value => OnlyChanges("_max_value")
       /\ Call_integer => OnlyChanges("_integer_only")
       /\ Call_format => OnlyChanges("_date_format")
       /\ Call_strict => OnlyChanges("_strict")
       /\ (pc = "config" /\ pc' = "config" /\ root' # root) => returned' = root'
      ]_vars

\* setters were chained on a string validator that had a custom message
\* before optional() was called on it
C26_Witness ==
    /\ pc = "config"
    /\ root.kind = "string"
    /\ root._optional
    /\ root._custom_message = <<"Custom">>
    /\ root._min_length # None
    /\ root._pattern # None
    /\ returned = root

\* C27: a ValidationError has the message and the field path it was built
\* from (the empty path if none was given), and its display form is the
\* path, ": " and the message if the path is not empty, else the message.
C27_ValidationError ==
    verr # None =>
        LET message == verr_args[1]
            path == IF Len(verr_args) = 2 THEN verr_args[2] ELSE ""
        IN  /\ verr.message = message
            /\ verr.field_path = path
            /\ ValidationError_str(verr) =
                   IF path = "" THEN message ELSE path \o ": " \o message

\* an error built from a message that itself holds ": " and a path
C27_Witness ==
    /\ verr # None
    /\ verr_args = <<": ", "a">>
    /\ ValidationError_str(verr) = "a: : "

\* C28: a ValidationResult that a caller built with any arguments and then
\* called add_error on any number of times is valid exactly if its list of
\* errors is empty.
C28_ResultInvariant == made.is_valid = (made.errors = <<>>)

\* product x passes every filter that the arguments args supply: a category
\* and names that are not empty, and a price, a rating and a stock flag
\* that are not None
Satisfies(x, args) ==
    /\ (args.category # None /\ args.category[1] # <<>>)
           => lower(x.category) = lower(args.category[1])
    /\ args.max_price # None => x.price <= args.max_price[1]
    /\ args.min_rating # None => x.rating >= args.min_rating[1]
    /\ args.in_stock_only # None => x.in_stock = args.in_stock_only[1]
    /\ (args.product_names # None /\ args.product_names[1] # <<>>)
           => \E i \in DOMAIN args.product_names[1] :
                 str_in(lower(args.product_names[1][i]), lower(x.name))

\* the number of times x is in list
Count(list, x) == Cardinality({i \in DOMAIN list : list[i] = x})

\* x has to come before y in the order that args ask for
SortsBefore(x, y, args) ==
    IF args.ascending # None /\ args.ascending[1]
    THEN key_lt(args.sort_by[1], x, y)
    ELSE key_lt(args.sort_by[1], y, x)

\* what the arguments args ask of the list that is returned
Postcondition(list, all, args) ==
    LET passing == SelectSeq(all, LAMBDA x : Satisfies(x, args))
        sorted == args.sort_by # None
                     /\ args.sort_by[1] \in {"price", "rating", "name"}
        wanted == IF args.limit # None /\ args.limit[1] > 0
                     /\ args.limit[1] < Len(passing)
                  THEN args.limit[1] ELSE Len(passing)
    IN  /\ \A i \in DOMAIN list : Satisfies(list[i], args)
        /\ \A i \in DOMAIN list : Count(list, list[i]) <= Count(all, list[i])
        /\ Len(list) = wanted
        /\ sorted =>
              /\ \A i \in 1..(Len(list) - 1) :
                     ~SortsBefore(list[i + 1], list[i], args)
              /\ \A i \in DOMAIN list :
                     Cardinality({j \in DOMAIN passing :
                                     SortsBefore(passing[j], list[i], args)}) < i
        /\ ~sorted => list = SubSeq(passing, 1, wanted)

\* C29: a filter_products call leaves self.products as it was, records and
\* order, and the list it returns holds only records of self.products that
\* pass every filter supplied, each no more often than self.products does,
\* in the order asked for (price, rating or lower-case name, ascending or
\* descending), and is cut to its first limit records if limit is positive:
\* no record that was left out sorts before one that was kept.
C29_FilterProducts ==
    /\ [](query # None => Postcondition(filtered, products, query[1]))
    /\ [][products' = products]_vars

\* a list of two products, the cheaper one first, was sorted by price,
\* descending, and cut to one: the dearer product is what is returned
C29_Witness ==
    /\ query # None
    /\ Len(products) = 2
    /\ products[1].price < products[2].price
    /\ query[1].sort_by = <<"price">>
    /\ query[1].ascending = <<FALSE>>
    /\ query[1].limit = <<1>>
    /\ query[1].category = None /\ query[1].max_price = None
    /\ query[1].min_rating = None /\ query[1].in_stock_only = None
    /\ query[1].product_names = None
    /\ filtered = <<products[2]>>

\* C30: in every pass, an object validator that is given a dict, the root
\* or a field or an item below any other validator, raises one error of its
\* own per undeclared key of that dict if strict() was called on it, and no
\* error of its own if not, whether strict() was called on the validators
\* above it or not.
C30_StrictPerNode ==
    pc = "validated"
    => \A k \in DOMAIN PassCalls :
         LET c == PassCalls[k]
             r == IF k = 1 THEN result ELSE CallResult(c)
             below == ChildErrors(ChildCalls(c.self, c.val, c.path), 1)
         IN  (c.self.kind = "object" /\ c.val.t = "dict")
             => Len(r.errors) - Len(below) =
                   IF c.self._strict
                   THEN Cardinality(UndeclaredKeys(c.self, c.val))
                   ELSE 0

\* a strict root whose field a is an object validator that is not strict: the
\* undeclared key x of the root's dict is reported, the undeclared key x of
\* the dict of a is not, and the item of a.b that is not a number is
C30_Witness ==
    /\ pc = "validated"
    /\ root.kind = "object" /\ root._strict
    /\ root.schema = PathExampleSchema.schema
    /\ field_path = ""
    /\ value = DictV(("a" :> DictV(("b" :> MixedList) @@ ("x" :> IntV(1))))
                     @@ ("x" :> IntV(1)))
    /\ Len(result.errors) = 2
    /\ result.errors[2] = "a.b[1]: Must be a number"

====
